---- MODULE Spec2Model ----
(***************************************************************************)
(* Model of app.py: a Flask application with two routes, index ("/") and   *)
(* data ("/data", GET and POST), over one MongoDB collection.              *)
(*                                                                         *)
(* Each request is handled by one worker of the WSGI server.  A handler    *)
(* is split at its source lines, so that the calls of concurrently         *)
(* handled requests on the collection interleave.  The collection is the   *)
(* external collaborator: a call on it is atomic, and either takes effect  *)
(* and returns or raises and takes no effect.                              *)
(*                                                                         *)
(* app.py applies the decorator cross_origin (lines 13 and 18) and imports *)
(* no such name.  The model takes it to be flask_cors.cross_origin, which  *)
(* adds response headers only, so that the handlers are the ones written.  *)
(***************************************************************************)
EXTENDS Integers, Sequences, FiniteSets, TLC

\* ---- bounds -------------------------------------------------------------
NumWorkers == 2     \* requests handled concurrently
MaxPosts == 2       \* POST /data requests that reach a reachable collection
MaxVal == 2         \* field values are 1..MaxVal
MaxTime == 1        \* the clock runs from 0 to MaxTime

Workers == 1..NumWorkers
Keys == {"_id", "name"}
Values == 1..MaxVal

\* A JSON object: a mapping from some keys to values.
Docs == UNION {[K -> Values] : K \in SUBSET Keys}

\* The body of a request, as the client sent it.
\*   object    a JSON object, sent as application/json
\*   nonobject valid JSON that is not an object (null, an array, a number)
\*   empty     an empty body sent as application/json
\*   garbage   a body sent as application/json that does not parse
\*   absent    no body and no JSON content type
NoDoc == [k \in {} |-> 0]
Bodies ==
    {[kind |-> "object", doc |-> d] : d \in Docs}
    \cup {[kind |-> k, doc |-> NoDoc] : k \in {"nonobject", "empty", "garbage", "absent"}}

\* What the local variable `data` of the handler holds.
NoData == [tag |-> "unset", docs |-> << >>]
Dict(d) == [tag |-> "dict", docs |-> <<d>>]
\* None, or any other value that is not a mapping
NotADict == [tag |-> "notdict", docs |-> << >>]
DocList(s) == [tag |-> "list", docs |-> s]

\* A response: the status line and what the body carries.
NoResponse == [status |-> 0, kind |-> "none", time |-> 0, docs |-> << >>]
Welcome(t) == [status |-> 200, kind |-> "welcome", time |-> t, docs |-> << >>]
Inserted == [status |-> 201, kind |-> "inserted", time |-> 0, docs |-> << >>]
Documents(s) == [status |-> 200, kind |-> "documents", time |-> 0, docs |-> s]
Error(code) == [status |-> code, kind |-> "error", time |-> 0, docs |-> << >>]

VARIABLES
    store,      \* the collection flask_db.data: the stored documents, in insertion order
    storeUp,    \* whether the MongoDB server can be reached
    nextOid,    \* the ObjectIds generated so far
    now,        \* the server clock
    pc,         \* where each worker is in its handler
    request,    \* the request each worker handles
    data,       \* the handler's local variable `data`
    response,   \* the response each worker sent last
    calls,      \* history: the calls the current request made on the collection
    seen,       \* history: Len(posted) when the GET's find ran
    posted,     \* history: the documents a reachable collection was handed, and the outcome
    answered    \* history: the POST /data requests answered 201

vars == <<store, storeUp, nextOid, now, pc, request, data, response, calls, seen, posted,
          answered>>

NoRequest == [route |-> "", method |-> "", body |-> [kind |-> "absent", doc |-> NoDoc]]

\* ---- the collection ------------------------------------------------------
\* An ObjectId the driver generates; never equal to a value a client can send.
ObjectId(n) == MaxVal + n

\* The projection {"_id": 0}: the document without its _id field.
Project(d) == [k \in (DOMAIN d) \ {"_id"} |-> d[k]]

\* The document with an _id field added.
WithId(d, id) == [k \in (DOMAIN d) \cup {"_id"} |-> IF k = "_id" THEN id ELSE d[k]]

StoredIds == {store[i]["_id"] : i \in 1..Len(store)}

\* find({}, {"_id": 0}) drained by list(): every document, projected.
Find == [i \in 1..Len(store) |-> Project(store[i])]

\* ---- request.get_json() ---------------------------------------------------
\* The outcomes of request.get_json(): the parsed value, or an HTTP error.
\* A body that is not sent as JSON is answered 415 by Flask 2.1 and later,
\* and yields None before that; the repository pins no version.
get_json(body) ==
    CASE body.kind = "object" -> {[abort |-> 0, value |-> Dict(body.doc)]}
      [] body.kind = "nonobject" -> {[abort |-> 0, value |-> NotADict]}
      [] body.kind \in {"empty", "garbage"} -> {[abort |-> 400, value |-> NoData]}
      [] body.kind = "absent" ->
            {[abort |-> 415, value |-> NoData], [abort |-> 0, value |-> NotADict]}

TypeOK ==
    /\ storeUp \in BOOLEAN
    /\ now \in 0..MaxTime
    /\ nextOid \in 0..MaxPosts
    /\ Len(store) <= MaxPosts
    /\ \A i \in 1..Len(store) : "_id" \in DOMAIN store[i]
    /\ pc \in [Workers -> {"idle", "index", "post_get_json", "post_insert_one",
                           "post_return", "get_find", "get_return", "done"}]

Init ==
    /\ store = << >>
    /\ storeUp = TRUE
    /\ nextOid = 0
    /\ now = 0
    /\ pc = [w \in Workers |-> "idle"]
    /\ request = [w \in Workers |-> NoRequest]
    /\ data = [w \in Workers |-> NoData]
    /\ response = [w \in Workers |-> NoResponse]
    /\ calls = [w \in Workers |-> 0]
    /\ seen = [w \in Workers |-> 0]
    /\ posted = << >>
    /\ answered = 0

\* ---- the routes -----------------------------------------------------------
\* POST /data requests with an object body that are under way or were handed
\* to the collection.
PostsBegun ==
    Len(posted)
    + Cardinality({w \in Workers : pc[w] \in {"post_get_json", "post_insert_one"}})

\* The dispatcher hands a request to a free worker.
Receive(w, route, method, body) ==
    /\ pc[w] \in {"idle", "done"}
    /\ \/ route = "/" /\ method = "GET" /\ body.kind = "absent"
       \/ route = "/data" /\ method = "GET" /\ body.kind = "absent"
       \/ route = "/data" /\ method = "POST" /\ PostsBegun < MaxPosts
    /\ request' = [request EXCEPT ![w] = [route |-> route, method |-> method, body |-> body]]
    /\ pc' = [pc EXCEPT ![w] =
                IF route = "/" THEN "index"
                ELSE IF method = "POST" THEN "post_get_json" ELSE "get_find"]
    /\ data' = [data EXCEPT ![w] = NoData]
    /\ response' = [response EXCEPT ![w] = NoResponse]
    /\ calls' = [calls EXCEPT ![w] = 0]
    /\ seen' = [seen EXCEPT ![w] = 0]
    /\ UNCHANGED <<store, storeUp, nextOid, now, posted, answered>>

\* Not the code: a handler that catches the exception and makes its call
\* again.  C6 does not hold of it.
Retry(w, code) ==
    UNCHANGED <<response, pc>>

\* An exception leaves the handler, which catches none: Flask answers with the
\* status of an HTTP exception, and with 500 for any other.
Propagate(w, code) ==
    /\ response' = [response EXCEPT ![w] = Error(code)]
    /\ pc' = [pc EXCEPT ![w] = "done"]

\* Not the code: the welcome with a time taken once, at start-up.  C9 does
\* not hold of it.
cached_body(w) == Welcome(0)

\* The text index() returns: the welcome with datetime.now().
index_body(w) == Welcome(now)

\* index(), line 15.
index(w) ==
    /\ pc[w] = "index"
    /\ response' = [response EXCEPT ![w] = index_body(w)]
    /\ pc' = [pc EXCEPT ![w] = "done"]
    /\ UNCHANGED <<store, storeUp, nextOid, now, request, data, calls, seen, posted, answered>>

\* data(), POST, line 21: data = request.get_json().
post_get_json(w) ==
    /\ pc[w] = "post_get_json"
    /\ \E out \in get_json(request[w].body) :
          IF out.abort # 0
          THEN /\ Propagate(w, out.abort)
               /\ UNCHANGED data
          ELSE /\ data' = [data EXCEPT ![w] = out.value]
               /\ pc' = [pc EXCEPT ![w] = "post_insert_one"]
               /\ UNCHANGED response
    /\ UNCHANGED <<store, storeUp, nextOid, now, request, calls, seen, posted, answered>>

\* Not the code: a write that replaces the stored document of the same _id.
\* C7 does not hold of it.
upsert_one(d) ==
    IF "_id" \in DOMAIN d /\ d["_id"] \in StoredIds
    THEN [ok |-> TRUE,
          store |-> [i \in 1..Len(store) |->
                        IF store[i]["_id"] = d["_id"] THEN d ELSE store[i]],
          oid |-> nextOid]
    ELSE IF "_id" \in DOMAIN d
    THEN [ok |-> TRUE, store |-> Append(store, d), oid |-> nextOid]
    ELSE [ok |-> TRUE, store |-> Append(store, WithId(d, ObjectId(nextOid + 1))),
          oid |-> nextOid + 1]

\* Not the code: an insert that writes over the last stored document.  C8
\* does not hold of it.
insert_one_over_last(d) ==
    LET doc == IF "_id" \in DOMAIN d THEN d ELSE WithId(d, ObjectId(nextOid + 1))
        oid == IF "_id" \in DOMAIN d THEN nextOid ELSE nextOid + 1
    IN  IF "_id" \in DOMAIN d /\ d["_id"] \in StoredIds
        THEN [ok |-> FALSE, store |-> store, oid |-> nextOid]
        ELSE IF store = << >>
        THEN [ok |-> TRUE, store |-> <<doc>>, oid |-> oid]
        ELSE [ok |-> TRUE, store |-> [store EXCEPT ![Len(store)] = doc], oid |-> oid]

\* Not the code: an insert that skips an object whose fields are stored
\* already.  C10 does not hold of it.
insert_one_if_absent(d) ==
    IF "_id" \in DOMAIN d
    THEN IF d["_id"] \in StoredIds
         THEN [ok |-> FALSE, store |-> store, oid |-> nextOid]
         ELSE [ok |-> TRUE, store |-> Append(store, d), oid |-> nextOid]
    ELSE IF \E i \in 1..Len(store) : Project(store[i]) = d
    THEN [ok |-> TRUE, store |-> store, oid |-> nextOid]
    ELSE [ok |-> TRUE, store |-> Append(store, WithId(d, ObjectId(nextOid + 1))),
          oid |-> nextOid + 1]

\* insert_one(document) on a collection that can be reached: the outcome
\* [ok, store, oid].  A document without _id gets a fresh ObjectId; a
\* document whose _id is already stored raises DuplicateKeyError.
insert_one(d) ==
    IF "_id" \in DOMAIN d
    THEN IF d["_id"] \in StoredIds
         THEN [ok |-> FALSE, store |-> store, oid |-> nextOid]
         ELSE [ok |-> TRUE, store |-> Append(store, d), oid |-> nextOid]
    ELSE [ok |-> TRUE, store |-> Append(store, WithId(d, ObjectId(nextOid + 1))),
          oid |-> nextOid + 1]

\* data(), POST, line 22: collection.insert_one(data).
post_insert_one(w) ==
    /\ pc[w] = "post_insert_one"
    /\ IF data[w].tag # "dict"
       THEN \* TypeError, raised before anything is sent
            /\ Propagate(w, 500)
            /\ UNCHANGED <<store, nextOid, calls, posted>>
       ELSE /\ calls' = [calls EXCEPT ![w] = @ + 1]
            /\ IF ~storeUp
               THEN \* ServerSelectionTimeoutError
                    /\ Propagate(w, 500)
                    /\ UNCHANGED <<store, nextOid, posted>>
               ELSE LET r == insert_one(data[w].docs[1]) IN
                    /\ store' = r.store
                    /\ nextOid' = r.oid
                    /\ posted' = Append(posted, [doc |-> data[w].docs[1], ok |-> r.ok])
                    /\ IF r.ok
                       THEN /\ pc' = [pc EXCEPT ![w] = "post_return"]
                            /\ UNCHANGED response
                       ELSE \* DuplicateKeyError
                            Propagate(w, 500)
    /\ UNCHANGED <<storeUp, now, request, data, seen, answered>>

\* data(), POST, line 23: return jsonify({"status": "Data inserted"}), 201.
post_return(w) ==
    /\ pc[w] = "post_return"
    /\ response' = [response EXCEPT ![w] = Inserted]
    /\ pc' = [pc EXCEPT ![w] = "done"]
    /\ answered' = answered + 1
    /\ UNCHANGED <<store, storeUp, nextOid, now, request, data, calls, seen, posted>>

\* data(), GET, line 25: data = list(collection.find({}, {"_id": 0})).
get_find(w) ==
    /\ pc[w] = "get_find"
    /\ calls' = [calls EXCEPT ![w] = @ + 1]
    /\ IF ~storeUp
       THEN \* ServerSelectionTimeoutError
            /\ Propagate(w, 500)
            /\ UNCHANGED <<data, seen>>
       ELSE /\ data' = [data EXCEPT ![w] = DocList(Find)]
            /\ seen' = [seen EXCEPT ![w] = Len(posted)]
            /\ pc' = [pc EXCEPT ![w] = "get_return"]
            /\ UNCHANGED response
    /\ UNCHANGED <<store, storeUp, nextOid, now, request, posted, answered>>

\* data(), GET, line 26: return jsonify(data), 200.
get_return(w) ==
    /\ pc[w] = "get_return"
    /\ response' = [response EXCEPT ![w] = Documents(data[w].docs)]
    /\ pc' = [pc EXCEPT ![w] = "done"]
    /\ UNCHANGED <<store, storeUp, nextOid, now, request, data, calls, seen, posted, answered>>

\* ---- the environment ------------------------------------------------------
\* The MongoDB server becomes unreachable, or reachable again.
StoreFails ==
    /\ storeUp
    /\ storeUp' = FALSE
    /\ UNCHANGED <<store, nextOid, now, pc, request, data, response, calls, seen, posted, answered>>

StoreRecovers ==
    /\ ~storeUp
    /\ storeUp' = TRUE
    /\ UNCHANGED <<store, nextOid, now, pc, request, data, response, calls, seen, posted, answered>>

\* Time passes.
Tick ==
    /\ now < MaxTime
    /\ now' = now + 1
    /\ UNCHANGED <<store, storeUp, nextOid, pc, request, data, response, calls, seen, posted, answered>>

Next ==
    \/ \E w \in Workers :
          \/ \E body \in Bodies :
                \/ Receive(w, "/", "GET", body)
                \/ Receive(w, "/data", "GET", body)
                \/ Receive(w, "/data", "POST", body)
          \/ index(w)
          \/ post_get_json(w)
          \/ post_insert_one(w)
          \/ post_return(w)
          \/ get_find(w)
          \/ get_return(w)
    \/ StoreFails
    \/ StoreRecovers
    \/ Tick

Spec == Init /\ [][Next]_vars

\* ---- what the claims speak of -----------------------------------------------
\* The requests a worker has finished.
Done(w) == pc[w] = "done"
IsPost(w) == request[w].route = "/data" /\ request[w].method = "POST"
IsGetData(w) == request[w].route = "/data" /\ request[w].method = "GET"
IsIndex(w) == request[w].route = "/"

\* A GET /data answered with documents.
GotDocuments(w) == Done(w) /\ IsGetData(w) /\ response[w].kind = "documents"

\* The documents a GET /data returned.
Returned(w) == response[w].docs

\* The POSTs among the first n handed to the collection that it accepted.
AcceptedIn(n) == {j \in 1..n : posted[j].ok}

\* How often d occurs in the sequence s.
Count(s, d) == Cardinality({i \in 1..Len(s) : s[i] = d})

\* The first n documents handed to the collection are pairwise distinct.
DistinctIn(n) == \A i, j \in 1..n : i # j => posted[i].doc # posted[j].doc

\* (C1) Round trip: after a POST /data with the object D was accepted, a
\* GET /data returns a document field-for-field equal to D, and no returned
\* document carries the _id field.  Stated for every D, a D with the key
\* "_id" included.
C1_RoundTrip ==
    \A w \in Workers :
        GotDocuments(w) =>
            /\ \A j \in AcceptedIn(seen[w]) :
                  \E i \in 1..Len(Returned(w)) : Returned(w)[i] = posted[j].doc
            /\ \A i \in 1..Len(Returned(w)) : "_id" \notin DOMAIN Returned(w)[i]

\* (C2) Provenance: every document a GET /data returns is equal to the body
\* of an earlier POST /data that the collection accepted.
C2_Provenance ==
    \A w \in Workers :
        GotDocuments(w) =>
            \A i \in 1..Len(Returned(w)) :
                \E j \in AcceptedIn(seen[w]) : posted[j].doc = Returned(w)[i]

\* (C3) Count preservation: after N POST /data requests with pairwise
\* distinct objects, made of a reachable collection that was empty, GET /data
\* returns 200 and exactly N documents; for N = 0 the empty array.
C3_CountPreserved ==
    \A w \in Workers :
        (GotDocuments(w) /\ DistinctIn(seen[w])) =>
            /\ response[w].status = 200
            /\ Len(Returned(w)) = seen[w]

\* (C4) Acceptance of any object: a POST /data with any JSON object, made of
\* a reachable collection whatever it holds, is accepted: it stores one more
\* document and is answered 201 with {"status": "Data inserted"}.
C4_AnyObjectAccepted ==
    /\ \A j \in 1..Len(posted) : posted[j].ok
    /\ Len(store) = Len(posted)

\* (C5) Malformed input: a POST /data whose body is absent, empty or not
\* parseable as JSON is answered with a client error (4xx), never with 201
\* and never with a server error, and makes no call on the collection.
C5_MalformedIsClientError ==
    \A w \in Workers :
        (Done(w) /\ IsPost(w) /\ request[w].body.kind \in {"absent", "empty", "garbage"}) =>
            /\ response[w].status \in 400..499
            /\ calls[w] = 0

\* s is an initial part of t.
IsPrefix(s, t) == Len(s) <= Len(t) /\ \A i \in 1..Len(s) : s[i] = t[i]

\* (C6) Store unavailable: a GET /data or POST /data whose call on the
\* collection finds it unreachable ends in a 500 response after that one
\* call: the call is not made again, the POST is not answered 201, and the
\* collection holds what it held.
C6_StoreUnavailable ==
    [][\A w \in Workers :
          /\ calls'[w] <= 1
          /\ (calls'[w] = calls[w] + 1 /\ ~storeUp) =>
                /\ pc'[w] = "done"
                /\ response'[w].status = 500
                /\ response'[w].kind = "error"
                /\ store' = store]_vars

\* (C6) witness: with the collection unreachable, a POST /data of an object
\* and a GET /data have each ended in 500 after one call, nothing stored.
C6_Witness ==
    \E w1, w2 \in Workers :
        /\ ~storeUp /\ store = << >> /\ posted = << >>
        /\ Done(w1) /\ IsPost(w1) /\ request[w1].body.kind = "object"
        /\ calls[w1] = 1 /\ response[w1].status = 500
        /\ Done(w2) /\ IsGetData(w2) /\ calls[w2] = 1 /\ response[w2].status = 500

\* (C7) Only a successful POST changes the store: the collection changes
\* only by the insert of a POST /data that is then answered 201, which
\* appends one document; no step alters or removes a stored document; a
\* request that ends with another status changed nothing; and of two
\* GET /data answers the later returns every document of the earlier.
C7_OnlyPostChangesStore ==
    [][/\ IsPrefix(store, store')
       /\ store' # store =>
             \E w \in Workers :
                /\ IsPost(w) /\ pc[w] = "post_insert_one" /\ pc'[w] = "post_return"
                /\ Len(store') = Len(store) + 1
       /\ \A w \in Workers :
             /\ (pc[w] # "done" /\ pc'[w] = "done" /\ response'[w].status # 201) =>
                   (store' = store /\ pc[w] # "post_return")
             /\ (pc[w] = "post_return" /\ pc'[w] # pc[w]) => response'[w].status = 201
       /\ \A w1, w2 \in Workers :
             (GotDocuments(w1)' /\ GotDocuments(w2)' /\ seen'[w1] <= seen'[w2]) =>
                 IsPrefix(Returned(w1)', Returned(w2)')]_vars

\* (C7) witness: a GET /data returned one document; a POST /data was then
\* rejected; a later GET /data returned that same one document.
C7_Witness ==
    \E w1, w2 \in Workers :
        /\ GotDocuments(w1) /\ GotDocuments(w2)
        /\ seen[w1] = 1 /\ seen[w2] = 2 /\ ~posted[2].ok
        /\ Len(Returned(w1)) = 1 /\ Returned(w2) = Returned(w1)

\* (C8) Independent concurrent inserts: under any interleaving, the
\* collection holds the documents of the accepted POSTs, one each, in the
\* order of their inserts, each with its own fields; when no request is under
\* way it holds as many documents as POSTs were answered 201; and a GET /data
\* returns the whole documents, less _id, of the POSTs inserted before its find.
C8_IndependentInserts ==
    /\ Len(store) = Cardinality(AcceptedIn(Len(posted)))
    /\ \A j \in AcceptedIn(Len(posted)) :
          LET i == Cardinality(AcceptedIn(j)) IN
          /\ Project(store[i]) = Project(posted[j].doc)
          /\ "_id" \in DOMAIN posted[j].doc => store[i] = posted[j].doc
    /\ (\A w \in Workers : pc[w] \in {"idle", "done"}) => Len(store) = answered
    /\ \A w \in Workers :
          (pc[w] = "get_return" \/ GotDocuments(w)) =>
              LET k == Cardinality(AcceptedIn(seen[w]))
                  docs == IF pc[w] = "get_return" THEN data[w].docs ELSE Returned(w)
              IN  /\ Len(docs) = k
                  /\ \A i \in 1..k : docs[i] = Project(store[i])

\* (C8) witness: two POSTs ran concurrently with a GET /data: one was
\* answered 201, the other has inserted and is not answered yet, and a
\* GET /data that ran its find meanwhile holds both documents.
C8_Witness ==
    \E w1, w2 \in Workers :
        /\ pc[w1] = "post_return" /\ pc[w2] = "get_return"
        /\ answered = 1 /\ Len(store) = 2 /\ Len(data[w2].docs) = 2

\* (C9) GET / has no error condition: whatever the state, an unreachable or
\* empty collection included, index() answers 200 with the welcome carrying
\* the time of that step, and makes no call on the collection.
C9_IndexAlwaysAnswers ==
    [][\A w \in Workers :
          (pc[w] = "index" /\ pc'[w] # "index") =>
              /\ pc'[w] = "done"
              /\ response'[w].status = 200
              /\ response'[w].kind = "welcome"
              /\ response'[w].time = now
              /\ calls'[w] = 0
              /\ store' = store /\ posted' = posted]_vars

\* (C9) witness: with the collection unreachable and empty, two GET / were
\* answered at different times with different timestamps.
C9_Witness ==
    \E w1, w2 \in Workers :
        /\ ~storeUp /\ store = << >>
        /\ Done(w1) /\ IsIndex(w1) /\ Done(w2) /\ IsIndex(w2)
        /\ response[w1].status = 200 /\ response[w2].status = 200
        /\ response[w1].time = 0 /\ response[w2].time = MaxTime

\* The objects that carry no identifier field of their own.
PlainDocs == {d \in Docs : "_id" \notin DOMAIN d}

\* The stored documents whose _id the driver generated and whose fields are d.
StoredCopies(d) ==
    {i \in 1..Len(store) : store[i]["_id"] \notin Values /\ Project(store[i]) = d}

\* (C10) Writes are not idempotent: for an object D without _id, no POST of
\* D is rejected, each POST of D stores one more document, the stored
\* documents have pairwise distinct _id, and a GET /data returns D once for
\* each POST of D before it (and for nothing else, when no posted object
\* carried an _id).
C10_NotIdempotent ==
    /\ Cardinality(StoredIds) = Len(store)
    /\ \A d \in PlainDocs :
          /\ \A j \in 1..Len(posted) : posted[j].doc = d => posted[j].ok
          /\ Cardinality(StoredCopies(d))
                = Cardinality({j \in 1..Len(posted) : posted[j].doc = d})
          /\ \A w \in Workers :
                GotDocuments(w) =>
                    LET k == Cardinality({j \in 1..seen[w] : posted[j].doc = d}) IN
                    /\ Count(Returned(w), d) >= k
                    /\ (\A j \in 1..seen[w] : posted[j].doc \in PlainDocs) =>
                           Count(Returned(w), d) = k

\* (C10) witness: the same object without _id was posted twice, and a
\* GET /data returned it twice.
C10_Witness ==
    \E w \in Workers, d \in PlainDocs :
        /\ GotDocuments(w) /\ Returned(w) = <<d, d>>
        /\ Len(posted) = 2 /\ posted[1].doc = d /\ posted[2].doc = d
        /\ store[1]["_id"] # store[2]["_id"]

====
